---- MODULE Spec2Model ----
(***************************************************************************)
(* LinkinVet dashboard (src/dashboard.py): a Streamlit script that is run  *)
(* from top to bottom once when the session opens and again after every    *)
(* widget interaction.  The only state that survives a run is the pair of  *)
(* widget values (jurisdiction selectbox, solo-share slider); the tables   *)
(* and the four panels are rebuilt by every run.                           *)
(*                                                                         *)
(* Numbers.  Python floats are carried as exact integers in hundredths     *)
(* (3212.0 is 321200, 188.4 is 18840, 873.1 is 87310); every product and   *)
(* difference the script forms on the literal data is an exact multiple of *)
(* 1/100.  Quotients (the ratio column) are carried as reduced fractions.  *)
(* Rounding happens only where the script rounds: Series.round(1) and the  *)
(* format specifications .0f, .1f and .2f, all round-half-to-even.         *)
(***************************************************************************)
EXTENDS Integers, Sequences, FiniteSets, TLC

VARIABLES juris, solo_share, df_ca, qc_practice_main,
          tab_ca, tab_qc, tab_scen, tab_sources, seen

vars == <<juris, solo_share, df_ca, qc_practice_main,
          tab_ca, tab_qc, tab_scen, tab_sources, seen>>

(***************************************************************************)
(* Official figures, CVMA                                                  *)
(***************************************************************************)
CAN_REGISTERED_VETS_2024 == 16317
CAN_ACTIVE_VETS_2023_24 == 15278
CAN_ACCREDITED_FACILITIES_2023_24 == 4328

\* Table 1 values in hundredths of M$ (16946.8 is 1694680); head counts as integers.
CAN_OUTPUT_MCAD == 1694680
CAN_GDP_MCAD == 954930
CAN_EMPLOYMENT_FTE == 81920
CAN_TAX_FED_MCAD == 87310
CAN_TAX_PROV_MCAD == 79730
CAN_TAX_MUNI_MCAD == 15820

\* A dict in insertion order: a sequence of (key, value) items.
vets_active_2023_24 ==
    << [k |-> "Ontario (ON)", v |-> 5386],
       [k |-> "Québec (QC)", v |-> 3212],
       [k |-> "Alberta (AB)", v |-> 2099],
       [k |-> "Colombie-Britannique (BC)", v |-> 2141],
       [k |-> "Saskatchewan (SK)", v |-> 724],
       [k |-> "Nouvelle-Écosse (NS)", v |-> 495],
       [k |-> "Manitoba (MB)", v |-> 458],
       [k |-> "Nouveau-Brunswick (NB)", v |-> 167],
       [k |-> "Île-du-Prince-Édouard (PE)", v |-> 238],
       [k |-> "Terre-Neuve-et-Labrador (NL)", v |-> 158],
       [k |-> "Yukon (YK)", v |-> 34],
       [k |-> "Territoires du Nord-Ouest (NT)", v |-> 4] >>

facilities_2023_24 ==
    << [k |-> "Ontario (ON)", v |-> 1760],
       [k |-> "Québec (QC)", v |-> 942],
       [k |-> "Alberta (AB)", v |-> 608],
       [k |-> "Colombie-Britannique (BC)", v |-> 688],
       [k |-> "Saskatchewan (SK)", v |-> 135],
       [k |-> "Nouvelle-Écosse (NS)", v |-> 155],
       [k |-> "Manitoba (MB)", v |-> 152],
       [k |-> "Nouveau-Brunswick (NB)", v |-> 92],
       [k |-> "Île-du-Prince-Édouard (PE)", v |-> 25],
       [k |-> "Terre-Neuve-et-Labrador (NL)", v |-> 31],
       [k |-> "Yukon (YK)", v |-> 14],
       [k |-> "Territoires du Nord-Ouest (NT)", v |-> 4] >>

(***************************************************************************)
(* Arithmetic helpers                                                      *)
(***************************************************************************)
RECURSIVE GCD(_, _)
GCD(a, b) == IF b = 0 THEN a ELSE GCD(b, a % b)

\* The integer nearest to num/den (num >= 0, den > 0), ties to the even one.
RoundHalfEven(num, den) ==
    LET q == num \div den
        r == num % den
    IN  IF 2 * r > den \/ (2 * r = den /\ q % 2 = 1) THEN q + 1 ELSE q

\* A missing cell of an integer column.
NaN == -1

\* Quotient with the operands exchanged
QuotientSwapped(a, b) ==
    IF a = NaN \/ b = NaN THEN [num |-> 0, den |-> 0]
    ELSE IF a = 0 THEN [num |-> IF b = 0 THEN 0 ELSE 1, den |-> 0]
    ELSE LET g == GCD(b, a) IN [num |-> b \div g, den |-> a \div g]

\* A quotient of two columns: a reduced fraction; 0/0 stands for NaN and
\* 1/0 for inf (pandas division raises nothing).
Quotient(a, b) ==
    IF a = NaN \/ b = NaN THEN [num |-> 0, den |-> 0]
    ELSE IF b = 0 THEN [num |-> IF a = 0 THEN 0 ELSE 1, den |-> 0]
    ELSE LET g == GCD(a, b) IN [num |-> a \div g, den |-> b \div g]

(***************************************************************************)
(* String formatting                                                       *)
(***************************************************************************)
Pad2(n) == IF n < 10 THEN "0" \o ToString(n) ELSE ToString(n)

Pad3(n) == IF n < 10 THEN "00" \o ToString(n)
           ELSE IF n < 100 THEN "0" \o ToString(n) ELSE ToString(n)

\* f"{n:,}".replace(",", " ") for an integer n >= 0
RECURSIVE FmtThousands(_)
FmtThousands(n) ==
    IF n < 1000 THEN ToString(n)
    ELSE FmtThousands(n \div 1000) \o " " \o Pad3(n % 1000)

\* f"{x:,.1f}".replace(",", " ") for x in hundredths
FmtThousands1f(x) ==
    LET t == RoundHalfEven(x, 10)
    IN  FmtThousands(t \div 10) \o "." \o ToString(t % 10)

\* f"{x:.0f}" for x in hundredths
Fmt0f(x) == ToString(RoundHalfEven(x, 100))

\* f"{q:.2f}" for a quotient q
Fmt2f(q) ==
    IF q.den = 0 THEN (IF q.num = 0 THEN "nan" ELSE "inf")
    ELSE LET h == RoundHalfEven(q.num * 100, q.den)
         IN  ToString(h \div 100) \o "." \o Pad2(h % 100)

(***************************************************************************)
(* Data frames: sequences of rows, a row is a record of its columns        *)
(***************************************************************************)
\* pd.DataFrame([{"Juridiction": k, <col>: v} for k, v in d.items()])
FrameOfItems(d) == [i \in 1..Len(d) |-> [Juridiction |-> d[i].k, value |-> d[i].v]]

\* left.merge(right, on="Juridiction", how="left"): one row per left row and
\* matching right row, in left order; a left row without a match keeps a
\* missing right cell.
RECURSIVE MergeLeft(_, _)
MergeLeft(left, right) ==
    IF left = <<>> THEN <<>>
    ELSE LET l == Head(left)
             m == SelectSeq(right, LAMBDA r : r.Juridiction = l.Juridiction)
             rows == IF m = <<>>
                     THEN << [Juridiction |-> l.Juridiction, Vets |-> l.value, Facs |-> NaN] >>
                     ELSE [i \in 1..Len(m) |->
                              [Juridiction |-> l.Juridiction, Vets |-> l.value, Facs |-> m[i].value]]
         IN  rows \o MergeLeft(Tail(left), right)

\* df_ca with its derived column: Vets / Facs, row by row
WithRatio(df) ==
    [i \in 1..Len(df) |->
        [Juridiction |-> df[i].Juridiction, Vets |-> df[i].Vets, Facs |-> df[i].Facs,
         Ratio |-> Quotient(df[i].Vets, df[i].Facs)]]

BuildDfCa == WithRatio(MergeLeft(FrameOfItems(vets_active_2023_24),
                                 FrameOfItems(facilities_2023_24)))

(***************************************************************************)
(* Official figures, OMVQ                                                  *)
(***************************************************************************)
QC_OMVQ_MEMBERS_TOTAL == 2804
QC_OMVQ_ACTIVE_STATUS_N == 2381
QC_OMVQ_FEMALE_N == 2025
QC_OMVQ_MALE_N == 779

PracticeRows ==
    << [Pratique |-> "Animaux de compagnie", Effectif |-> 1674],
       [Pratique |-> "Grands animaux", Effectif |-> 305],
       [Pratique |-> "Santé publique", Effectif |-> 172],
       [Pratique |-> "Services-conseils", Effectif |-> 149],
       [Pratique |-> "Équins", Effectif |-> 94],
       [Pratique |-> "Enseignement", Effectif |-> 95],
       [Pratique |-> "Administration", Effectif |-> 76],
       [Pratique |-> "Petits ruminants", Effectif |-> 0],
       [Pratique |-> "Grandes populations animales", Effectif |-> 42],
       [Pratique |-> "Faune et zoos", Effectif |-> 15],
       [Pratique |-> "Animaux de bassecour", Effectif |-> 1] >>

\* Part cut to one decimal instead of rounded
PartTruncated(effectif) == 10 * ((effectif * 100 * 10) \div QC_OMVQ_MEMBERS_TOTAL)

\* Part taken over the members of active status instead of all members
PartOfActive(effectif) == 10 * RoundHalfEven(effectif * 100 * 10, QC_OMVQ_ACTIVE_STATUS_N)

\* (Effectif / QC_OMVQ_MEMBERS_TOTAL * 100).round(1), in hundredths of a percent
Part(effectif) == 10 * RoundHalfEven(effectif * 100 * 10, QC_OMVQ_MEMBERS_TOTAL)

BuildQcPracticeMain ==
    [i \in 1..Len(PracticeRows) |->
        [Pratique |-> PracticeRows[i].Pratique,
         Effectif |-> PracticeRows[i].Effectif,
         Part     |-> Part(PracticeRows[i].Effectif)]]

QC_COMPANION_MONTEREGIE_N == 405
QC_COMPANION_MONTREAL_N == 352
QC_COMPANION_ABITIBI_N == 20
QC_COMPANION_GASPESIE_N == 10
QC_COMPANION_COTE_NORD_N == 9
QC_COMPANION_NORD_DU_QC_N == 2

(***************************************************************************)
(* sort_values(col, ascending=False) and px.bar                            *)
(***************************************************************************)
IsNaNKey(r, col) == IF col = "Ratio" THEN r.Ratio.den = 0 /\ r.Ratio.num = 0
                    ELSE r[col] = NaN

\* r's key is strictly greater than s's key (neither missing)
KeyGreater(r, s, col) ==
    IF col = "Ratio" THEN r.Ratio.num * s.Ratio.den > s.Ratio.num * r.Ratio.den
    ELSE r[col] > s[col]

\* GoesBefore for ascending=True
GoesBeforeAscending(r, s, col) ==
    /\ ~IsNaNKey(r, col)
    /\ IsNaNKey(s, col) \/ KeyGreater(s, r, col)

\* r goes before s in descending order; missing keys go last
GoesBefore(r, s, col) ==
    /\ ~IsNaNKey(r, col)
    /\ IsNaNKey(s, col) \/ KeyGreater(r, s, col)

\* The sort itself: rows with equal keys stay in the order the sort meets
\* them (pandas leaves the order of equal keys to the sorting algorithm).
RECURSIVE InsertRow(_, _, _)
InsertRow(sorted, r, col) ==
    IF sorted = <<>> THEN << r >>
    ELSE IF GoesBefore(r, Head(sorted), col) THEN << r >> \o sorted
    ELSE << Head(sorted) >> \o InsertRow(Tail(sorted), r, col)

RECURSIVE SortedCopy(_, _)
SortedCopy(df, col) ==
    IF df = <<>> THEN <<>>
    ELSE InsertRow(SortedCopy(SubSeq(df, 1, Len(df) - 1), col), df[Len(df)], col)

\* df.sort_values(col, ascending=False): the result is a new frame, the
\* receiver keeps its row order (inplace is not set).
SortValues(df, col) == [result |-> SortedCopy(df, col), receiver |-> df]

\* px.bar(frame, x=xcol, y=ycol): one bar per row, in row order
Bar(frame, xcol, ycol) == [i \in 1..Len(frame) |-> [x |-> frame[i][xcol], y |-> frame[i][ycol]]]

(***************************************************************************)
(* The four panels.  A panel is the record of what the run hands to        *)
(* Streamlit; the panels that sort a frame also give back the frame as the *)
(* calls leave it.                                                         *)
(***************************************************************************)
\* TaxTotal without the municipal component
TaxTotalFedProv == CAN_TAX_FED_MCAD + CAN_TAX_PROV_MCAD

\* The displayed total of the three tax components, before formatting
TaxTotal == CAN_TAX_FED_MCAD + CAN_TAX_PROV_MCAD + CAN_TAX_MUNI_MCAD

TabCa(df) ==
    LET s1 == SortValues(df, "Vets")
        s2 == SortValues(s1.receiver, "Facs")
        s3 == SortValues(s2.receiver, "Ratio")
        s4 == SortValues(s3.receiver, "Vets")
    IN  [panel |->
           [c1 |-> FmtThousands(CAN_REGISTERED_VETS_2024),
            c2 |-> FmtThousands(CAN_ACTIVE_VETS_2023_24),
            c3 |-> FmtThousands(CAN_ACCREDITED_FACILITIES_2023_24),
            c4 |-> Fmt2f(Quotient(CAN_ACTIVE_VETS_2023_24, CAN_ACCREDITED_FACILITIES_2023_24)),
            e1 |-> FmtThousands1f(CAN_OUTPUT_MCAD),
            e2 |-> FmtThousands1f(CAN_GDP_MCAD),
            e3 |-> FmtThousands(CAN_EMPLOYMENT_FTE),
            e4 |-> FmtThousands1f(TaxTotal),
            chart_vets  |-> Bar(s1.result, "Juridiction", "Vets"),
            chart_facs  |-> Bar(s2.result, "Juridiction", "Facs"),
            chart_ratio |-> Bar(s3.result, "Juridiction", "Ratio"),
            dataframe   |-> s4.result],
         frame |-> s4.receiver]

\* qc.loc[qc["Pratique principale"] == label, "Effectif"].iloc[0]
EffectifOf(qc, label) == SelectSeq(qc, LAMBDA r : r.Pratique = label)[1].Effectif

TabQc(qc) ==
    LET s1 == SortValues(qc, "Effectif")
        s2 == SortValues(s1.receiver, "Effectif")
    IN  [panel |->
           [q1 |-> FmtThousands(QC_OMVQ_MEMBERS_TOTAL),
            q2 |-> FmtThousands(QC_OMVQ_ACTIVE_STATUS_N),
            q3 |-> FmtThousands(QC_OMVQ_FEMALE_N),
            q4 |-> FmtThousands(QC_OMVQ_MALE_N),
            chart |-> Bar(s1.result, "Pratique", "Effectif"),
            highlights |->
              << [label |-> "Animaux de compagnie", pct |-> 60,
                  n |-> EffectifOf(s1.receiver, "Animaux de compagnie")],
                 [label |-> "Grands animaux", pct |-> 11,
                  n |-> EffectifOf(s1.receiver, "Grands animaux")],
                 [label |-> "Santé publique", pct |-> 6,
                  n |-> EffectifOf(s1.receiver, "Santé publique")] >>,
            dataframe |-> s2.result,
            regional |-> << QC_COMPANION_MONTEREGIE_N, QC_COMPANION_MONTREAL_N,
                            QC_COMPANION_ABITIBI_N, QC_COMPANION_GASPESIE_N,
                            QC_COMPANION_COTE_NORD_N, QC_COMPANION_NORD_DU_QC_N >>],
         frame |-> s2.receiver]

\* The selectbox: its options and the option preselected on a fresh session
JurisOptions(df) == [i \in 1..Len(df) |-> df[i].Juridiction]

DefaultJuris == "Québec (QC)"

\* The slider: min_value, max_value, value, step
SliderMin == 0
SliderMax == 80
SliderDefault == 20
SliderStep == 5

\* SliderValues of a slider that runs to 100
SliderValuesTo100 == {p \in SliderMin..100 : (p - SliderMin) % SliderStep = 0}

SliderValues == {p \in SliderMin..SliderMax : (p - SliderMin) % SliderStep = 0}

\* float(n) for an integer cell, in hundredths
ToFloat(n) == 100 * n

\* TimesShare rounded to a whole number
TimesShareRounded(x, share) == 100 * RoundHalfEven(x * share, 10000)

\* TimesShare with the integer quotient solo_share // 100
TimesShareIntDiv(x, share) == x * (share \div 100)

\* x * (solo_share / 100.0) for x in hundredths
TimesShare(x, share) == (x * share) \div 100

\* max(a, b)
Max(a, b) == IF a >= b THEN a ELSE b

TabScen(df, j, share) ==
    LET row   == SelectSeq(df, LAMBDA r : r.Juridiction = j)[1]
        vets  == ToFloat(row.Vets)
        facs  == ToFloat(row.Facs)
        ratio == row.Ratio
        solo_facilities  == TimesShare(facs, share)
        multi_facilities == facs - solo_facilities
        solo_vets_est    == solo_facilities
        multi_vets_est   == Max(vets - solo_vets_est, 0)
    IN  [a1 |-> FmtThousands(vets \div 100),
         a2 |-> FmtThousands(facs \div 100),
         a3 |-> Fmt2f(ratio),
         solo_facilities  |-> solo_facilities,
         multi_facilities |-> multi_facilities,
         solo_vets_est    |-> solo_vets_est,
         multi_vets_est   |-> multi_vets_est,
         s1 |-> Fmt0f(solo_facilities),
         s2 |-> Fmt0f(solo_vets_est),
         s3 |-> Fmt0f(multi_vets_est)]

TabSources ==
    [cvma |-> "https://www.canadianveterinarians.net/media/jo4hqvwc/cvma_final-report-en.pdf",
     cvma_page |-> "https://www.canadianveterinarians.net/about-cvma/latest-news/economic-impact-study-2024-update/",
     omvq |-> "https://www.omvq.qc.ca/DATA/TEXTEDOC/2024---Portrait-de-la-profession-veterinaire---Document.pdf",
     cited |-> << "15 278", "4 328", "2 804" >>]

(***************************************************************************)
(* One run of the script with the widgets at (j, share): the module-level  *)
(* frames as the run leaves them and the four panels.                      *)
(***************************************************************************)
\* The parts of a run that read no widget
RunTabCa == TabCa(BuildDfCa)

RunTabQc == TabQc(BuildQcPracticeMain)

\* TabScen tabulated over the selectbox options and the slider values
TabScenOf ==
    [j \in {JurisOptions(RunTabCa.frame)[i] : i \in 1..Len(RunTabCa.frame)} |->
        [share \in SliderValues |-> TabScen(RunTabCa.frame, j, share)]]

\* df with the Facs cell of row j set to facs
FrameWithFacs(df, j, facs) ==
    [i \in 1..Len(df) |-> IF df[i].Juridiction = j THEN [df[i] EXCEPT !.Facs = facs] ELSE df[i]]

\* Script with the scenario's multi_facilities written back into df_ca
ScriptWriteBack(j, share) ==
    LET scen == TabScen(RunTabCa.frame, j, share)
    IN  [df_ca |-> FrameWithFacs(RunTabCa.frame, j, scen.multi_facilities \div 100),
         qc_practice_main |-> RunTabQc.frame,
         tab_ca |-> RunTabCa.panel,
         tab_qc |-> RunTabQc.panel,
         tab_scen |-> scen,
         tab_sources |-> TabSources]

Script(j, share) ==
    [df_ca |-> RunTabCa.frame,
     qc_practice_main |-> RunTabQc.frame,
     tab_ca |-> RunTabCa.panel,
     tab_qc |-> RunTabQc.panel,
     tab_scen |-> TabScenOf[j][share],
     tab_sources |-> TabSources]

\* Run with the Scenario panel computed from the slider value of the
\* previous run
RunStale(j, share) ==
    LET r == Script(j, share)
    IN  /\ juris' = j
        /\ solo_share' = share
        /\ df_ca' = r.df_ca
        /\ qc_practice_main' = r.qc_practice_main
        /\ tab_ca' = r.tab_ca
        /\ tab_qc' = r.tab_qc
        /\ tab_scen' = Script(j, solo_share).tab_scen
        /\ tab_sources' = r.tab_sources

\* The widgets take the values (j, share) and the script runs
Run(j, share) ==
    LET r == Script(j, share)
    IN  /\ juris' = j
        /\ solo_share' = share
        /\ df_ca' = r.df_ca
        /\ qc_practice_main' = r.qc_practice_main
        /\ tab_ca' = r.tab_ca
        /\ tab_qc' = r.tab_qc
        /\ tab_scen' = r.tab_scen
        /\ tab_sources' = r.tab_sources

\* A fresh session: the widgets hold their defaults and the script has run once.
Init ==
    LET r == Script(DefaultJuris, SliderDefault)
    IN  /\ juris = DefaultJuris
        /\ solo_share = SliderDefault
        /\ df_ca = r.df_ca
        /\ qc_practice_main = r.qc_practice_main
        /\ tab_ca = r.tab_ca
        /\ tab_qc = r.tab_qc
        /\ tab_scen = r.tab_scen
        /\ tab_sources = r.tab_sources
        /\ seen = [taken |-> FALSE, juris |-> DefaultJuris, solo_share |-> SliderDefault,
                   out |-> r.tab_scen]

\* The user picks another option of the selectbox; the script reruns.
SelectJuris(j) ==
    /\ \E i \in 1..Len(df_ca) : JurisOptions(df_ca)[i] = j
    /\ j # juris
    /\ Run(j, solo_share)

\* The user moves the slider; the script reruns.
MoveSlider(share) ==
    /\ share \in SliderValues
    /\ share # solo_share
    /\ Run(juris, share)

\* A rerun with the widgets untouched (the app's Rerun command).
Rerun == Run(juris, solo_share)

\* An observer's note of one earlier render of the Scenario panel: the
\* inputs and the output of a render that is being replaced by a render
\* with other inputs.  The observer takes one note and keeps it.
Observe ==
    \/ seen' = seen
    \/ /\ ~seen.taken
       /\ juris' # juris \/ solo_share' # solo_share
       /\ seen' = [taken |-> TRUE, juris |-> juris, solo_share |-> solo_share,
                   out |-> tab_scen]

Next ==
    \/ \E i \in 1..Len(df_ca) : SelectJuris(df_ca[i].Juridiction) /\ UNCHANGED seen
    \/ \E share \in SliderValues : MoveSlider(share) /\ UNCHANGED seen
    \/ Rerun /\ UNCHANGED seen

Spec == Init /\ [][Next]_vars

NextObserved ==
    \/ \E i \in 1..Len(df_ca) : SelectJuris(df_ca[i].Juridiction) /\ Observe
    \/ \E share \in SliderValues : MoveSlider(share) /\ Observe
    \/ Rerun /\ Observe

SpecObserved == Init /\ [][NextObserved]_vars

(***************************************************************************)
(* Properties                                                              *)
(***************************************************************************)
\* d[key] for a dict d
ItemValue(d, key) == SelectSeq(d, LAMBDA it : it.k = key)[1].v

RECURSIVE SumOf(_, _)
SumOf(frame, col) == IF frame = <<>> THEN 0 ELSE Head(frame)[col] + SumOf(Tail(frame), col)

Abs(x) == IF x < 0 THEN -x ELSE x

\* part (hundredths of a percent) is effectif / 2804 * 100 rounded to one decimal
IsRoundedShare(part, effectif) ==
    /\ part % 10 = 0
    /\ 2 * Abs((part \div 10) * QC_OMVQ_MEMBERS_TOTAL - effectif * 1000) <= QC_OMVQ_MEMBERS_TOTAL

\* C1 as stated: the 11 'Part (%)' values sum to 100% within +-0.5.
C1_SumIsHundred ==
    /\ Len(qc_practice_main) = 11
    /\ Abs(SumOf(qc_practice_main, "Part") - 10000) <= 50

\* C1 amended: the 11 'Part (%)' values, each headcount / 2804 * 100 rounded
\* to one decimal, sum to 93.5%, which is within +-0.5 of the share
\* 2623 / 2804 * 100 of the members the 11 rows count (2623 of 2804).
C1_SumIsShareOfCounted ==
    /\ Len(qc_practice_main) = 11
    /\ \A i \in 1..Len(qc_practice_main) :
          IsRoundedShare(qc_practice_main[i].Part, qc_practice_main[i].Effectif)
    /\ SumOf(qc_practice_main, "Effectif") = 2623
    /\ SumOf(qc_practice_main, "Part") = 9350
    /\ Abs(SumOf(qc_practice_main, "Part") * QC_OMVQ_MEMBERS_TOTAL
           - SumOf(qc_practice_main, "Effectif") * 10000) <= 50 * QC_OMVQ_MEMBERS_TOTAL

C1_Witness ==
    /\ Len(qc_practice_main) = 11
    /\ qc_practice_main[1].Part = 5970
    /\ qc_practice_main[8].Part = 0
    /\ SumOf(qc_practice_main, "Part") < 9950

\* C2: for every jurisdiction and slider value, solo_facilities is
\* facilities * solo_share / 100, solo_vets equals solo_facilities and
\* multi_vets is max(active_vets - solo_vets, 0), none of them rounded;
\* Quebec at 20 gives 188.4, 188.4 and 3023.6.
C2_ScenarioEstimate ==
    LET v == ItemValue(vets_active_2023_24, juris)
        f == ItemValue(facilities_2023_24, juris)
    IN  /\ solo_share \in {0, 5, 10, 15, 20, 25, 30, 35, 40, 45, 50, 55, 60, 65, 70, 75, 80}
        /\ 100 * tab_scen.solo_facilities = 100 * f * solo_share
        /\ tab_scen.solo_vets_est = tab_scen.solo_facilities
        /\ tab_scen.multi_vets_est =
              (IF 100 * v - tab_scen.solo_vets_est > 0 THEN 100 * v - tab_scen.solo_vets_est ELSE 0)
        /\ (juris = "Québec (QC)" /\ solo_share = 20) =>
              /\ v = 3212 /\ f = 942
              /\ tab_scen.solo_facilities = 18840
              /\ tab_scen.solo_vets_est = 18840
              /\ tab_scen.multi_vets_est = 302360

C2_Witness ==
    /\ juris = "Québec (QC)" /\ solo_share = 20
    /\ tab_scen.solo_facilities = 18840
    /\ tab_scen.multi_vets_est = 302360
    /\ tab_scen.s1 = "188" /\ tab_scen.s3 = "3024"

\* C3: with the jurisdiction fixed, a larger solo_share gives a strictly
\* smaller multi_vets unless the smaller share's multi_vets is already 0.
C3_Monotonic ==
    (seen.taken /\ seen.juris = juris) =>
        /\ (seen.solo_share < solo_share /\ seen.out.multi_vets_est > 0) =>
              tab_scen.multi_vets_est < seen.out.multi_vets_est
        /\ (solo_share < seen.solo_share /\ tab_scen.multi_vets_est > 0) =>
              seen.out.multi_vets_est < tab_scen.multi_vets_est

C3_Witness ==
    /\ seen.taken /\ seen.juris = juris
    /\ juris = "Territoires du Nord-Ouest (NT)"
    /\ seen.solo_share = 75 /\ solo_share = 80
    /\ seen.out.multi_vets_est = 100
    /\ tab_scen.multi_vets_est = 80

\* C4: the ratio table has exactly one row for each of the 12 jurisdictions,
\* every jurisdiction of the active-vet table has an entry of at least 4 in
\* the facilities table, each row's ratio is active_vets / facilities, and
\* Quebec's ratio is 3212/942, 3.41 to two decimals.
C4_RatioTable ==
    /\ Len(df_ca) = 12
    /\ Len(vets_active_2023_24) = 12
    /\ \A i \in 1..Len(vets_active_2023_24) :
          /\ Cardinality({n \in 1..Len(df_ca) :
                            df_ca[n].Juridiction = vets_active_2023_24[i].k}) = 1
          /\ \E n \in 1..Len(facilities_2023_24) :
                /\ facilities_2023_24[n].k = vets_active_2023_24[i].k
                /\ facilities_2023_24[n].v >= 4
    /\ \A n \in 1..Len(df_ca) :
          /\ df_ca[n].Vets = ItemValue(vets_active_2023_24, df_ca[n].Juridiction)
          /\ df_ca[n].Facs = ItemValue(facilities_2023_24, df_ca[n].Juridiction)
          /\ df_ca[n].Facs >= 4
          /\ df_ca[n].Ratio.den > 0
          /\ df_ca[n].Ratio.num * df_ca[n].Facs = df_ca[n].Ratio.den * df_ca[n].Vets
          /\ df_ca[n].Juridiction = "Québec (QC)" =>
                /\ df_ca[n].Vets = 3212 /\ df_ca[n].Facs = 942
                /\ Fmt2f(df_ca[n].Ratio) = "3.41"
    /\ juris = "Québec (QC)" => tab_scen.a3 = "3.41"

C4_Witness ==
    /\ Len(df_ca) = 12
    /\ df_ca[2].Juridiction = "Québec (QC)"
    /\ df_ca[2].Ratio = [num |-> 1606, den |-> 471]
    /\ juris = "Québec (QC)" /\ tab_scen.a3 = "3.41"

\* C5: the Scenario output is a function of the current jurisdiction and
\* slider value only: a render with the inputs of an earlier render gives
\* the earlier render's output, whatever inputs were chosen in between.
C5_FunctionOfInputs ==
    (seen.taken /\ seen.juris = juris /\ seen.solo_share = solo_share) =>
        seen.out = tab_scen

C5_Witness ==
    /\ seen.taken /\ seen.juris = juris /\ seen.solo_share = solo_share
    /\ juris = "Yukon (YK)" /\ solo_share = 55
    /\ seen.out = tab_scen
    /\ tab_scen.s1 = "8"

\* C6: a change of the scenario inputs leaves the data store (the ratio
\* table, the practice-type table) and the Canada, Quebec and Sources
\* panels as they were; only the Scenario panel's output changes.
C6_Frame ==
    [][ /\ df_ca' = df_ca
        /\ qc_practice_main' = qc_practice_main
        /\ tab_ca' = tab_ca
        /\ tab_qc' = tab_qc
        /\ tab_sources' = tab_sources
        /\ (juris' # juris \/ solo_share' # solo_share) => tab_scen' # tab_scen ]_vars

C6_Witness ==
    /\ juris = "Alberta (AB)" /\ solo_share = 45
    /\ tab_scen.s1 = "274"
    /\ df_ca[3].Juridiction = "Alberta (AB)" /\ df_ca[3].Facs = 608
    /\ tab_ca.chart_facs[4].x = "Alberta (AB)"

\* C7: every practice-type row's share is headcount / 2804 * 100 rounded to
\* one decimal (companion animals 59.7), and the highlight percentages 60,
\* 11 and 6 are their rows' shares rounded to the nearest whole percent.
C7_Shares ==
    /\ \A i \in 1..Len(qc_practice_main) :
          IsRoundedShare(qc_practice_main[i].Part, qc_practice_main[i].Effectif)
    /\ \E i \in 1..Len(qc_practice_main) :
          /\ qc_practice_main[i].Pratique = "Animaux de compagnie"
          /\ qc_practice_main[i].Part = 5970
    /\ Len(tab_qc.highlights) = 3
    /\ {<<tab_qc.highlights[h].label, tab_qc.highlights[h].pct>> : h \in 1..3}
          = {<<"Animaux de compagnie", 60>>, <<"Grands animaux", 11>>, <<"Santé publique", 6>>}
    /\ \A h \in 1..Len(tab_qc.highlights) :
          \E i \in 1..Len(qc_practice_main) :
             /\ qc_practice_main[i].Pratique = tab_qc.highlights[h].label
             /\ qc_practice_main[i].Effectif = tab_qc.highlights[h].n
             /\ Abs(100 * tab_qc.highlights[h].pct - qc_practice_main[i].Part) < 50

C7_Witness ==
    /\ tab_qc.highlights[2].pct = 11
    /\ tab_qc.highlights[2].n = 305
    /\ qc_practice_main[2].Part = 1090
    /\ qc_practice_main[3].Part = 610

\* C8: the displayed total tax revenue is the sum of the federal (873.1),
\* provincial (797.3) and municipal (158.2) components, 1828.6 at one decimal.
C8_TaxTotal ==
    /\ CAN_TAX_FED_MCAD = 87310 /\ CAN_TAX_PROV_MCAD = 79730 /\ CAN_TAX_MUNI_MCAD = 15820
    /\ tab_ca.e4 = "1 828.6"

C8_Witness ==
    /\ tab_ca.e4 = "1 828.6"
    /\ tab_ca.e1 = "16 946.8"
    /\ juris # DefaultJuris

\* a is strictly greater than b, as values of column col
ValueGreater(a, b, col) ==
    IF col = "Ratio" THEN a.den > 0 /\ b.den > 0 /\ a.num * b.den > b.num * a.den
    ELSE a > b

\* bars is a permutation of the rows of frame, by (xcol, ycol), in strictly
\* decreasing order of y; no two rows of frame share a value of ycol
SortedChartOf(bars, frame, xcol, ycol) ==
    /\ Len(bars) = Len(frame)
    /\ \A n \in 1..Len(frame) :
          Cardinality({b \in 1..Len(bars) :
                         bars[b].x = frame[n][xcol] /\ bars[b].y = frame[n][ycol]}) = 1
    /\ \A b \in 1..Len(bars) :
          \E n \in 1..Len(frame) : bars[b].x = frame[n][xcol] /\ bars[b].y = frame[n][ycol]
    /\ \A a, b \in 1..Len(bars) : a < b => ValueGreater(bars[a].y, bars[b].y, ycol)
    /\ \A m, n \in 1..Len(frame) : m # n => frame[m][ycol] # frame[n][ycol]

\* C9: every chart and table shows all rows of its source table in
\* non-increasing order of its sort column; no two rows share a value of a
\* sort column, so the order is unique; the source tables keep their order.
C9_SortedCharts ==
    /\ SortedChartOf(tab_ca.chart_vets, df_ca, "Juridiction", "Vets")
    /\ SortedChartOf(tab_ca.chart_facs, df_ca, "Juridiction", "Facs")
    /\ SortedChartOf(tab_ca.chart_ratio, df_ca, "Juridiction", "Ratio")
    /\ SortedChartOf(Bar(tab_ca.dataframe, "Juridiction", "Vets"), df_ca,
                     "Juridiction", "Vets")
    /\ {tab_ca.dataframe[n] : n \in 1..Len(tab_ca.dataframe)} = {df_ca[n] : n \in 1..Len(df_ca)}
    /\ SortedChartOf(tab_qc.chart, qc_practice_main, "Pratique", "Effectif")
    /\ SortedChartOf(Bar(tab_qc.dataframe, "Pratique", "Effectif"), qc_practice_main,
                     "Pratique", "Effectif")
    /\ {tab_qc.dataframe[n] : n \in 1..Len(tab_qc.dataframe)}
          = {qc_practice_main[n] : n \in 1..Len(qc_practice_main)}
    /\ JurisOptions(df_ca) = [i \in 1..Len(vets_active_2023_24) |-> vets_active_2023_24[i].k]
    /\ [i \in 1..Len(qc_practice_main) |-> qc_practice_main[i].Pratique]
          = [i \in 1..Len(PracticeRows) |-> PracticeRows[i].Pratique]

C9_Witness ==
    /\ tab_ca.chart_vets[3] = [x |-> "Colombie-Britannique (BC)", y |-> 2141]
    /\ tab_ca.chart_facs[12] = [x |-> "Territoires du Nord-Ouest (NT)", y |-> 4]
    /\ tab_ca.chart_ratio[1].x = "Île-du-Prince-Édouard (PE)"
    /\ tab_qc.chart[5] = [x |-> "Enseignement", y |-> 95]
    /\ df_ca[3].Juridiction = "Alberta (AB)"

\* C10: for every jurisdiction and slider value the clamp at 0 is idle:
\* solo_vets <= active_vets, multi_vets = active_vets - solo_vets > 0,
\* solo_vets + multi_vets = active_vets, and solo_facilities +
\* multi_facilities = facilities with both parts non-negative.
C10_ClampIdle ==
    LET v == 100 * ItemValue(vets_active_2023_24, juris)
        f == 100 * ItemValue(facilities_2023_24, juris)
    IN  /\ tab_scen.solo_vets_est <= v
        /\ tab_scen.multi_vets_est = v - tab_scen.solo_vets_est
        /\ tab_scen.multi_vets_est > 0
        /\ tab_scen.solo_vets_est + tab_scen.multi_vets_est = v
        /\ tab_scen.solo_facilities + tab_scen.multi_facilities = f
        /\ tab_scen.solo_facilities >= 0
        /\ tab_scen.multi_facilities >= 0

C10_Witness ==
    /\ juris = "Territoires du Nord-Ouest (NT)" /\ solo_share = 80
    /\ tab_scen.solo_vets_est = 320
    /\ tab_scen.multi_vets_est = 80
    /\ tab_scen.s3 = "1"

====
